---- MODULE Spec2Model ----
(***************************************************************************)
(* Exam generation and grading service (src/Project).                      *)
(*                                                                         *)
(* Four specifications share this module:                                  *)
(*   SpecExtract  LLMClient._extract_python_dict applied to reply texts    *)
(*   SpecGrade    Grader.grade_response applied to a question and a reply  *)
(*   SpecGenerate QuestionGenerator applied to a domain and replies        *)
(*   Spec         the FastAPI handlers of main.py over the sessions map    *)
(*                                                                         *)
(* Reply texts are sequences of lexemes.  Each lexeme stands for one       *)
(* concrete piece of text, and a text is the concatenation of its lexemes: *)
(*   LB  {                        RB  }                                    *)
(*   E   "state":1                (a Python and a JSON entry)              *)
(*   S   'percentage':None        (a Python entry; JSON after Method 4)    *)
(*   J   "explanation":null       (a JSON entry; a Name for literal_eval)  *)
(*   K   "rubric":                (a key, its value follows)               *)
(*   P   "percentage":null        (a JSON entry; a Name for literal_eval)  *)
(*   Q   "note":"\u0060\u0060\u0060Hi!\u0060\u0060\u0060"                    *)
(*                                (a Python and a JSON entry whose value   *)
(*                                 is the string ```Hi!```, in escapes)    *)
(*   QO  "note":"                 QC  "                                    *)
(*                                (QO F W F QC is the entry Q with its     *)
(*                                 value written out; QO and QC only       *)
(*                                 occur so)                               *)
(*   U   []:1                     (an entry with an unhashable key)        *)
(*   W   Hi!                      (prose)                                  *)
(*   F   ```                      (a fence delimiter)                      *)
(*   NL  a newline                                                         *)
(*   CR  CRITICAL:                (a fragment of the prompt template)      *)
(*   DN  Do not use markdown code blocks   (a fragment of the template)    *)
(*   PY  python                   (the tag of a fence: it only occurs      *)
(*                                 directly after a fence)                 *)
(*   X   998 times the character !   (long prose)                          *)
(* with one comma between a lexeme that ends an entry or a record and a   *)
(* directly following lexeme that starts one.                              *)
(***************************************************************************)
EXTENDS Integers, Sequences, FiniteSets, TLC

VARIABLES
    response_text,  \* SpecExtract: the text handed to _extract_python_dict
    extracted,      \* SpecExtract: what the call produced
    reextracted,    \* SpecExtract: the serialized mapping and what a second
                    \* call produced for it
    xpc,            \* SpecExtract: "call" before the call, "done" after it,
                    \* "again" after the second call
    gQuestion,      \* SpecGrade: the question handed to grade_response
    gReply,         \* SpecGrade: what the backend answers to the prompt
    gOutcome,       \* SpecGrade: the GradeResult returned or the exception
    gpc,            \* SpecGrade: "call" before the call, "done" after it
    qDomain,        \* SpecGenerate: the domain asked for
    qReplies,       \* SpecGenerate: what the backend answers, call by call
    qOutcome,       \* SpecGenerate: the questions returned or the failure
    qpc,            \* SpecGenerate: "call" before the call, "done" after it
    sessions,       \* Spec: main.sessions, session_id -> ExamSession
    inflight,       \* Spec: submit-response requests received, not yet run
    running,        \* Spec: requests whose handler waits for the backend
    http            \* Spec: the status of the last response sent

xvars == <<response_text, extracted, reextracted, xpc>>

gvars == <<gQuestion, gReply, gOutcome, gpc>>

qvars == <<qDomain, qReplies, qOutcome, qpc>>

svars == <<sessions, inflight, running, http>>

vars == <<response_text, extracted, reextracted, xpc,
          gQuestion, gReply, gOutcome, gpc,
          qDomain, qReplies, qOutcome, qpc, sessions, inflight, running, http>>

(***************************************************************************)
(* Bounds                                                                  *)
(***************************************************************************)
MaxLen == 4

MaxDepth == 3

MaxSessions == 2

MaxQuestions == 2

MaxResponses == 2

MaxInflight == 2

\* the largest count handed to generate_question_batch
MaxCount == 2

(***************************************************************************)
(* Lexemes                                                                 *)
(***************************************************************************)
Lexemes == {"LB", "RB", "E", "S", "J", "K", "U", "W", "F", "NL", "CR"}

\* the lexemes of the texts that reach the length limit of the preview
PreviewLexemes == {"X", "DN", "CR", "W", "NL"}

EndsEntry == {"E", "S", "J", "P", "Q", "QC", "U", "RB"}

StartsEntry == {"E", "S", "J", "P", "Q", "QO", "U", "K", "LB"}

\* the number of characters of a lexeme
LexLen(x) ==
    CASE x = "LB" -> 1
      [] x = "RB" -> 1
      [] x = "E" -> 9
      [] x = "S" -> 17
      [] x = "J" -> 18
      [] x = "K" -> 9
      [] x = "U" -> 4
      [] x = "W" -> 3
      [] x = "F" -> 3
      [] x = "NL" -> 1
      [] x = "CR" -> 9
      [] x = "DN" -> 31
      [] x = "PY" -> 6
      [] x = "X" -> 998
      [] x = "P" -> 17
      [] x = "Q" -> 48
      [] x = "QO" -> 8
      [] OTHER -> 1

RECURSIVE CharLen(_)
\* len(text): the lexemes and the commas between them
CharLen(t) ==
    IF t = <<>> THEN 0
    ELSE LexLen(t[1])
         + (IF Len(t) > 1 /\ t[1] \in EndsEntry /\ t[2] \in StartsEntry THEN 1 ELSE 0)
         + CharLen(Tail(t))

\* the entry "note":"```Hi!```" written out
NoteWritten == <<"QO", "F", "W", "F", "QC">>

\* t starts with the written-out note
IsNote(t) == Len(t) >= Len(NoteWritten) /\ SubSeq(t, 1, Len(NoteWritten)) = NoteWritten

RECURSIVE Lex(_)
\* the token stream a parser sees: commas explicit, whitespace dropped, a
\* string literal one token
Lex(t) ==
    IF t = <<>> THEN <<>>
    ELSE IF IsNote(t) THEN Lex(<<"Q">> \o SubSeq(t, Len(NoteWritten) + 1, Len(t)))
    ELSE (IF t[1] = "NL" THEN <<>> ELSE <<t[1]>>)
         \o (IF Len(t) > 1 /\ t[1] \in EndsEntry /\ t[2] \in StartsEntry
             THEN <<"COMMA">> ELSE <<>>)
         \o Lex(Tail(t))

RECURSIVE LStrip(_)
LStrip(t) == IF t # <<>> /\ t[1] = "NL" THEN LStrip(Tail(t)) ELSE t

RECURSIVE RStrip(_)
RStrip(t) ==
    IF t # <<>> /\ t[Len(t)] = "NL" THEN RStrip(SubSeq(t, 1, Len(t) - 1)) ELSE t

\* str.strip()
Strip(t) == RStrip(LStrip(t))

\* str.find(x): the first index holding x, 0 when there is none
Find(t, x) ==
    IF \E i \in 1..Len(t) : t[i] = x
    THEN CHOOSE i \in 1..Len(t) : t[i] = x /\ \A j \in 1..(i - 1) : t[j] # x
    ELSE 0

\* str.rfind(x, 0, before): the last index below `before` holding x
RFind(t, x, before) ==
    IF \E i \in 1..(before - 1) : t[i] = x
    THEN CHOOSE i \in 1..(before - 1) :
            t[i] = x /\ \A j \in (i + 1)..(before - 1) : t[j] # x
    ELSE 0

(***************************************************************************)
(* Parsed values.  A mapping is the set of keys it holds; the values of    *)
(* state, percentage and explanation are fixed by the lexeme, rubric holds *)
(* a nested mapping.                                                       *)
(***************************************************************************)
EmptyDict == [state |-> FALSE, percentage |-> FALSE, explanation |-> FALSE,
              note |-> FALSE, rubric |-> <<>>]

RECURSIVE MatchClose(_, _, _)
\* the index of the brace closing the one at i (depth counts from 0), 0 if none
MatchClose(c, i, depth) ==
    IF i > Len(c) THEN 0
    ELSE IF c[i] = "LB" THEN MatchClose(c, i + 1, depth + 1)
    ELSE IF c[i] = "RB"
         THEN (IF depth = 1 THEN i ELSE MatchClose(c, i + 1, depth - 1))
    ELSE MatchClose(c, i + 1, depth)

RECURSIVE ItemsVal(_, _, _)
\* the mapping built from the entries of the record whose items start at i
ItemsVal(c, i, acc) ==
    IF i > Len(c) \/ c[i] = "RB" THEN acc
    ELSE IF c[i] = "E" THEN ItemsVal(c, i + 1, [acc EXCEPT !.state = TRUE])
    ELSE IF c[i] \in {"S", "P"}
         THEN ItemsVal(c, i + 1, [acc EXCEPT !.percentage = TRUE])
    ELSE IF c[i] = "J" THEN ItemsVal(c, i + 1, [acc EXCEPT !.explanation = TRUE])
    ELSE IF c[i] = "Q" THEN ItemsVal(c, i + 1, [acc EXCEPT !.note = TRUE])
    ELSE IF c[i] = "K"
         THEN ItemsVal(c, MatchClose(c, i + 1, 0) + 1,
                       [acc EXCEPT !.rubric = <<ItemsVal(c, i + 2, EmptyDict)>>])
    ELSE ItemsVal(c, i + 1, acc)

DictVal(c) == ItemsVal(c, 2, EmptyDict)

(***************************************************************************)
(* ast.literal_eval                                                        *)
(***************************************************************************)
RECURSIVE PyValEnd(_, _)
RECURSIVE PyItems(_, _, _)

\* the index after the display { ... } that starts at i, 0 on a syntax error
PyValEnd(c, i) ==
    IF i + 1 > Len(c) \/ c[i] # "LB" THEN 0
    ELSE IF c[i + 1] = "RB" THEN i + 2
    ELSE IF c[i + 1] = "LB" THEN PyItems(c, i + 1, "set")
    ELSE PyItems(c, i + 1, "dict")

PyItems(c, i, kind) ==
    IF i > Len(c) THEN 0
    ELSE LET after ==
                 IF kind = "set" THEN PyValEnd(c, i)
                 ELSE IF c[i] \in {"E", "S", "J", "P", "Q", "U"} THEN i + 1
                 ELSE IF c[i] = "K" THEN PyValEnd(c, i + 1)
                 ELSE 0
         IN  IF after = 0 \/ after > Len(c) THEN 0
             ELSE IF c[after] = "RB" THEN after + 1
             ELSE IF c[after] = "COMMA" THEN PyItems(c, after + 1, kind)
             ELSE 0

RECURSIVE PyTupleOK(_, _)
\* displays separated by commas up to the end of the text
PyTupleOK(c, i) ==
    LET e == PyValEnd(c, i)
    IN  IF e = 0 THEN FALSE
        ELSE IF e = Len(c) + 1 THEN TRUE
        ELSE IF c[e] = "COMMA" THEN PyTupleOK(c, e + 1)
        ELSE FALSE

RECURSIVE PyEvalErr(_, _, _)
\* the first error of ast.literal_eval's conversion, in evaluation order:
\* a Name is a ValueError; a list, a dict or a set put into a dict key or a
\* set is a TypeError raised when the finished item is inserted
PyEvalErr(c, i, stack) ==
    IF i > Len(c) THEN "none"
    ELSE IF c[i] = "LB"
         THEN PyEvalErr(c, i + 1,
                        <<IF c[i + 1] = "LB" THEN "set" ELSE "dict">> \o stack)
    ELSE IF c[i] = "RB"
         THEN (IF Len(stack) > 1 /\ stack[2] = "set" THEN "TypeError"
               ELSE PyEvalErr(c, i + 1, Tail(stack)))
    ELSE IF c[i] \in {"J", "P"} THEN "ValueError"
    ELSE IF c[i] = "U" THEN "TypeError"
    ELSE PyEvalErr(c, i + 1, stack)

\* ast.literal_eval(text): a dict, another literal, an error the caller
\* catches (ValueError, SyntaxError) or a TypeError
literal_eval(t) ==
    LET c == Lex(t)
    IN  IF c = <<>> \/ ~PyTupleOK(c, 1) THEN [kind |-> "caught", val |-> <<>>]
        ELSE LET err == PyEvalErr(c, 1, <<>>)
             IN  IF err = "TypeError" THEN [kind |-> "TypeError", val |-> <<>>]
                 ELSE IF err = "ValueError" THEN [kind |-> "caught", val |-> <<>>]
                 ELSE IF PyValEnd(c, 1) = Len(c) + 1
                      THEN [kind |-> "dict", val |-> <<DictVal(c)>>]
                 ELSE [kind |-> "nondict", val |-> <<>>]

(***************************************************************************)
(* json.loads                                                              *)
(***************************************************************************)
RECURSIVE JsonValEnd(_, _, _)
RECURSIVE JsonItems(_, _, _)

JsonValEnd(c, i, fixed) ==
    IF i + 1 > Len(c) \/ c[i] # "LB" THEN 0
    ELSE IF c[i + 1] = "RB" THEN i + 2
    ELSE JsonItems(c, i + 1, fixed)

JsonItems(c, i, fixed) ==
    IF i > Len(c) THEN 0
    ELSE LET after ==
                 IF c[i] \in {"E", "J", "P", "Q"} \/ (fixed /\ c[i] = "S") THEN i + 1
                 ELSE IF c[i] = "K" THEN JsonValEnd(c, i + 1, fixed)
                 ELSE 0
         IN  IF after = 0 \/ after > Len(c) THEN 0
             ELSE IF c[after] = "RB" THEN after + 1
             ELSE IF c[after] = "COMMA" THEN JsonItems(c, after + 1, fixed)
             ELSE 0

\* json.loads(text); fixed: the text went through the quote and keyword
\* replacements of Method 4 first
json_loads(t, fixed) ==
    LET c == Lex(t)
    IN  IF c # <<>> /\ JsonValEnd(c, 1, fixed) = Len(c) + 1
        THEN [kind |-> "dict", val |-> <<DictVal(c)>>]
        ELSE [kind |-> "caught", val |-> <<>>]

(***************************************************************************)
(* LLMClient._extract_python_dict                                          *)
(***************************************************************************)
NoVal == <<>>

\* a call's outcome.  raw and raw_part are the sentinel's raw_response: the
\* lexemes it holds whole and, after them, the number of characters it
\* holds of the piece of the text that follows; sentinel is the mapping
Returned(v, m) ==
    [kind |-> "dict", val |-> v, raw |-> <<>>, raw_part |-> 0, sentinel |-> <<>>,
     exc |-> "none", method |-> m]

Raised(e, m) ==
    [kind |-> "raise", val |-> NoVal, raw |-> <<>>, raw_part |-> 0, sentinel |-> <<>>,
     exc |-> e, method |-> m]

\* Method 0: both intro patterns keep the text from its first opening brace
StripIntro(t) == IF Find(t, "LB") = 0 THEN t ELSE SubSeq(t, Find(t, "LB"), Len(t))

\* (?:python|json)? directly after a fence
DropTag(t) == IF t # <<>> /\ t[1] = "PY" THEN Tail(t) ELSE t

RECURSIVE FencedBlocks(_)
\* re.findall(code_block_pattern): the text between the 1st and 2nd fence,
\* the 3rd and 4th, ..., without the tag and the whitespace the pattern eats
\* after a fence
FencedBlocks(t) ==
    LET open == Find(t, "F")
        rest == IF open = 0 THEN <<>> ELSE SubSeq(t, open + 1, Len(t))
        close == Find(rest, "F")
    IN  IF open = 0 \/ close = 0 THEN <<>>
        ELSE <<LStrip(DropTag(SubSeq(rest, 1, close - 1)))>>
             \o FencedBlocks(SubSeq(rest, close + 1, Len(rest)))

\* max(matches, key=len): the first of the longest
Longest(ms) ==
    ms[CHOOSE i \in 1..Len(ms) :
           /\ \A j \in 1..Len(ms) : CharLen(ms[j]) <= CharLen(ms[i])
           /\ \A j \in 1..(i - 1) : CharLen(ms[j]) < CharLen(ms[i])]

RECURSIVE SplitLines(_)
\* str.split("\n")
SplitLines(t) ==
    LET nl == Find(t, "NL")
    IN  IF nl = 0 THEN <<t>>
        ELSE <<SubSeq(t, 1, nl - 1)>> \o SplitLines(SubSeq(t, nl + 1, Len(t)))

RECURSIVE JoinLines(_)
\* "\n".join(lines)
JoinLines(ls) ==
    IF ls = <<>> THEN <<>>
    ELSE IF Len(ls) = 1 THEN ls[1]
    ELSE ls[1] \o <<"NL">> \o JoinLines(Tail(ls))

\* the fallback of the fence step: the lines between the first two lines
\* that hold a fence
FenceLines(t) ==
    LET lines == SplitLines(t)
        fenced == {i \in 1..Len(lines) : Find(lines[i], "F") # 0}
        first == IF fenced = {} THEN 0
                 ELSE CHOOSE i \in fenced : \A j \in fenced : i <= j
        later == {i \in fenced : i > first}
        \* start_idx is the 0-based index after the first fenced line
        start_idx == first
        end_idx == IF later = {} THEN Len(lines)
                   ELSE (CHOOSE i \in later : \A j \in later : i <= j) - 1
    IN  IF start_idx > 0 /\ end_idx < Len(lines)
        THEN Strip(JoinLines(SubSeq(lines, start_idx + 1, end_idx)))
        ELSE t

\* the fence step (lines 145-168)
StripFences(t) ==
    IF Find(t, "F") = 0 THEN t
    ELSE IF FencedBlocks(t) # <<>> THEN Strip(Longest(FencedBlocks(t)))
    ELSE FenceLines(t)

RECURSIVE SkipText(_, _)
\* [^{}]* from i: the index of the next brace, Len + 1 when none follows
SkipText(t, i) ==
    IF i > Len(t) \/ t[i] \in {"LB", "RB"} THEN i ELSE SkipText(t, i + 1)

RECURSIVE MatchGroups(_, _)
\* (?:\{[^{}]*\}[^{}]*)*\} from p, where p holds a brace or is past the end
MatchGroups(t, p) ==
    IF p > Len(t) THEN 0
    ELSE IF t[p] = "RB" THEN p
    ELSE LET q == SkipText(t, p + 1)
         IN  IF q > Len(t) \/ t[q] # "RB" THEN 0
             ELSE MatchGroups(t, SkipText(t, q + 1))

\* dict_pattern matched at the opening brace i: the index of the closing
\* brace of the match, 0 when the pattern does not match there
MatchAt(t, i) == MatchGroups(t, SkipText(t, i + 1))

RECURSIVE DictMatches(_, _)
\* re.findall(dict_pattern): the leftmost matches that do not overlap
DictMatches(t, i) ==
    IF i > Len(t) THEN <<>>
    ELSE IF t[i] = "LB" /\ MatchAt(t, i) # 0
         THEN <<SubSeq(t, i, MatchAt(t, i))>> \o DictMatches(t, MatchAt(t, i) + 1)
    ELSE DictMatches(t, i + 1)

RECURSIVE SortedByLen(_)
\* sorted(matches, key=len, reverse=True), a stable sort
SortedByLen(ms) ==
    IF ms = <<>> THEN <<>>
    ELSE LET i == CHOOSE i \in 1..Len(ms) :
                      /\ \A j \in 1..Len(ms) : CharLen(ms[j]) <= CharLen(ms[i])
                      /\ \A j \in 1..(i - 1) : CharLen(ms[j]) < CharLen(ms[i])
         IN  <<ms[i]>> \o SortedByLen(SubSeq(ms, 1, i - 1) \o SubSeq(ms, i + 1, Len(ms)))

RECURSIVE TryMatches(_)
\* Method 3's loop: literal_eval of each candidate, json.loads when that
\* fails with a ValueError or SyntaxError; "none" when no candidate parses
TryMatches(ms) ==
    IF ms = <<>> THEN [kind |-> "none", val |-> NoVal]
    ELSE LET py == literal_eval(ms[1])
             js == json_loads(ms[1], FALSE)
         IN  IF py.kind = "dict" THEN py
             ELSE IF py.kind = "TypeError" THEN py
             ELSE IF py.kind = "caught" /\ js.kind = "dict" THEN js
             ELSE TryMatches(Tail(ms))

\* Methods 5 and 6 on the span that starts at the opening brace `brace`:
\* literal_eval, then json.loads of the span with quotes and keywords fixed
TrySpan(t, brace) ==
    LET close == MatchClose(t, brace, 0)
        span == SubSeq(t, brace, close)
        py == literal_eval(span)
        js == json_loads(span, TRUE)
    IN  IF close = 0 THEN [kind |-> "none", val |-> NoVal]
        ELSE IF py.kind \in {"dict", "TypeError"} THEN py
        ELSE IF py.kind = "caught" /\ js.kind = "dict" THEN js
        ELSE [kind |-> "none", val |-> NoVal]

\* common_keys in list order, as the lexemes that hold them
CommonKeys == <<{"S", "P"}, {"E"}, {"J"}, {"K"}>>

\* re.search(key_pattern): the first index holding the key, 0 when none does
FindKey(t, key) ==
    IF \E i \in 1..Len(t) : t[i] \in key
    THEN CHOOSE i \in 1..Len(t) : t[i] \in key /\ \A j \in 1..(i - 1) : t[j] \notin key
    ELSE 0

\* Method 6: the first common key found in the text and the last opening
\* brace before its first occurrence; 0 when no key or no brace is found
AnchorBrace(t) ==
    LET found == {k \in 1..Len(CommonKeys) : FindKey(t, CommonKeys[k]) # 0}
        key == CHOOSE k \in found : \A j \in found : k <= j
    IN  IF found = {} THEN 0 ELSE RFind(t, "LB", FindKey(t, CommonKeys[key]))

\* line 292: the length limit of the preview
PreviewLimit == 1000

\* the fragments of line 296-301 that have a lexeme, in list order
PromptFragments == <<"DN", "CR">>

\* the number of lexemes of t that original_text[:limit] holds whole
WholeLexemes(t, limit) ==
    CHOOSE n \in 0..Len(t) :
        /\ CharLen(SubSeq(t, 1, n)) <= limit
        /\ n < Len(t) => CharLen(SubSeq(t, 1, n + 1)) > limit

\* original_text[:limit]: the n lexemes that fit whole, and the number of
\* characters kept of the piece after them (its comma, then the lexeme)
TruncateAt(t, limit, n) ==
    [text |-> SubSeq(t, 1, n),
     part |-> IF n = Len(t) THEN 0 ELSE limit - CharLen(SubSeq(t, 1, n))]

Truncate(t, limit) == TruncateAt(t, limit, WholeLexemes(t, limit))

\* lines 302-308 for one fragment: the preview is cut before the first
\* occurrence of the fragment and stripped, unless that occurrence is at
\* index 0
CutFragment(preview, fragment) ==
    IF Find(preview.text, fragment) > 1
    THEN [text |-> Strip(SubSeq(preview.text, 1, Find(preview.text, fragment) - 1)),
          part |-> 0]
    ELSE preview

RECURSIVE CutFragments(_, _)
\* the loop of line 302 over the fragments from the k-th on
CutFragments(preview, k) ==
    IF k > Len(PromptFragments) THEN preview
    ELSE CutFragments(CutFragment(preview, PromptFragments[k]), k + 1)

\* lines 292-308: original_text[:1000] without what follows a prompt fragment
ErrorPreview(original) == CutFragments(Truncate(original, PreviewLimit), 1)

MsgSentinel == "Could not parse LLM response as dictionary. The AI returned an invalid format."

\* a sentinel whose explanation was left out
SentinelRecord_NoExplanation(preview) ==
    [error |-> MsgSentinel,
     raw_response |-> preview,
     total_points_awarded |-> 0,
     total_points_possible |-> 100,
     percentage |-> 0,
     state |-> "Error"]

\* lines 330-344: the mapping returned when no strategy found a record
SentinelRecord(preview) ==
    [error |-> MsgSentinel,
     raw_response |-> preview,
     total_points_awarded |-> 0,
     total_points_possible |-> 100,
     percentage |-> 0,
     state |-> "Error",
     explanation |->
         [overall_feedback |-> "Error: Could not parse AI response. The AI may have returned an invalid format. Please try submitting your response again.",
          criterion_grades |-> <<>>,
          strengths |-> <<>>,
          weaknesses |-> <<"Unable to parse AI response - format error">>,
          suggestions |-> <<"Please try resubmitting your response",
                            "If the problem persists, contact support">>]]

SentinelOf(preview) ==
    [kind |-> "sentinel", val |-> NoVal, raw |-> preview.text,
     raw_part |-> preview.part, sentinel |-> <<SentinelRecord(preview)>>,
     exc |-> "none", method |-> 7]

Sentinel(original) == SentinelOf(ErrorPreview(original))

\* _extract_python_dict(response_text): the record returned, the sentinel,
\* or the exception that leaves the function; method is the strategy that
\* ended the call
ExtractPythonDict(original) ==
    LET t == StripFences(StripIntro(Strip(original)))
        m1 == literal_eval(t)
        m2 == json_loads(t, FALSE)
        m3 == TryMatches(SortedByLen(DictMatches(t, 1)))
        m4 == json_loads(t, TRUE)
        m5 == IF Find(t, "LB") = 0 THEN [kind |-> "none", val |-> NoVal]
              ELSE TrySpan(t, Find(t, "LB"))
        m6 == IF AnchorBrace(t) = 0 THEN [kind |-> "none", val |-> NoVal]
              ELSE TrySpan(t, AnchorBrace(t))
    IN  IF m1.kind = "dict" THEN Returned(m1.val, 1)
        ELSE IF m1.kind = "TypeError" THEN Raised("TypeError", 1)
        ELSE IF m2.kind = "dict" THEN Returned(m2.val, 2)
        ELSE IF m3.kind = "dict" THEN Returned(m3.val, 3)
        ELSE IF m3.kind = "TypeError" THEN Raised("TypeError", 3)
        ELSE IF m4.kind = "dict" THEN Returned(m4.val, 4)
        ELSE IF m5.kind = "dict" THEN Returned(m5.val, 5)
        ELSE IF m5.kind = "TypeError" THEN Raised("TypeError", 5)
        ELSE IF m6.kind = "dict" THEN Returned(m6.val, 6)
        ELSE IF m6.kind = "TypeError" THEN Raised("TypeError", 6)
        ELSE Sentinel(original)

RECURSIVE Serialize(_)
\* the mapping m written as JSON text without whitespace, its keys in the
\* order state, percentage, explanation, note, rubric
Serialize(m) ==
    <<"LB">>
    \o (IF m.state THEN <<"E">> ELSE <<>>)
    \o (IF m.percentage THEN <<"P">> ELSE <<>>)
    \o (IF m.explanation THEN <<"J">> ELSE <<>>)
    \o (IF m.note THEN NoteWritten ELSE <<>>)
    \o (IF m.rubric = <<>> THEN <<>> ELSE <<"K">> \o Serialize(m.rubric[1]))
    \o <<"RB">>

\* the second call, on the text s
Reextract(s) == [text |-> s, result |-> ExtractPythonDict(s)]

(***************************************************************************)
(* Numbers.  Points are integers; a quotient is kept as a reduced fraction *)
(* n/d with d > 0.                                                         *)
(***************************************************************************)
Abs(x) == IF x < 0 THEN 0 - x ELSE x

RECURSIVE GCD(_, _)
GCD(a, b) == IF b = 0 THEN a ELSE GCD(b, a % b)

Rat(n, d) == LET g == GCD(Abs(n), d) IN [n |-> n \div g, d |-> d \div g]

RatLE(a, b) == a.n * b.d <= b.n * a.d

(***************************************************************************)
(* Questions (models.py)                                                   *)
(***************************************************************************)
NoPoints == [c \in {} |-> 0]

\* GradingRubric values the question generator can build: criteria and
\* points come from the generator's record without a consistency check
Rubrics ==
    [criteria : {<<>>, <<"A", "B">>},
     points_per_criterion : {NoPoints, [c \in {"A", "B"} |-> IF c = "A" THEN 10 ELSE 20]},
     total_points : {-10, 0, 30}]

\* ExamQuestion: the fields grading reads
Question(id, rubric) == [question_id |-> id, rubric |-> rubric]

\* dict.get(criterion, 0.0) on points_per_criterion
PointsOf(rubric, c) ==
    IF c \in DOMAIN rubric.points_per_criterion
    THEN rubric.points_per_criterion[c] ELSE 0

(***************************************************************************)
(* The grading record of the generator.  Every field may be missing, hold  *)
(* a number, hold a numeric string, or hold a value of another type.       *)
(***************************************************************************)
Missing == [t |-> "missing", v |-> 0]

Num(n) == [t |-> "num", v |-> n]

NumStr(n) == [t |-> "numstr", v |-> n]

Bad == [t |-> "bad", v |-> 0]

AwardedVals == {Missing, Num(-5), Num(15), Num(45), NumStr(15), Bad}

PossibleVals == {Missing, Num(100)}

PercentageVals == {Missing, Num(-20), Num(0), Num(50), Num(51), Num(150), Bad}

StateVals == {[t |-> "missing", s |-> ""], [t |-> "str", s |-> "P"], [t |-> "bad", s |-> ""]}

FeedbackVals == {[t |-> "missing", s |-> ""], [t |-> "str", s |-> "Good answer"],
                 [t |-> "bad", s |-> ""]}

\* one element of the generator's criterion_grades list
CgDict(c, awarded, max) ==
    [t |-> "dict", criterion |-> c, points_awarded |-> awarded, max_points |-> max]

CgNonDict == [t |-> "nondict", criterion |-> "", points_awarded |-> Missing,
              max_points |-> Missing]

CriterionGradesVals ==
    {[t |-> "missing", items |-> <<>>],
     [t |-> "notlist", items |-> <<>>],
     [t |-> "list", items |-> <<>>],
     [t |-> "list", items |-> <<CgNonDict>>],
     [t |-> "list", items |-> <<CgDict("A", Num(5), Num(99))>>],
     [t |-> "list", items |-> <<CgDict("A", Num(5), Num(10)), CgNonDict,
                                CgDict("B", Bad, Num(20))>>]}

ExplanationVals ==
    [t : {"dict"}, criterion_grades : CriterionGradesVals, overall_feedback : FeedbackVals]
    \cup {[t |-> "notdict", criterion_grades |-> [t |-> "missing", items |-> <<>>],
           overall_feedback |-> [t |-> "missing", s |-> ""]]}

GradeRecords ==
    [total_points_awarded : AwardedVals,
     total_points_possible : PossibleVals,
     percentage : PercentageVals,
     state : StateVals,
     explanation : ExplanationVals,
     error : BOOLEAN]

(***************************************************************************)
(* LLMClient._call_api and LLMClient.grade_response                        *)
(***************************************************************************)
\* what the backend does: an HTTP outcome, and for "ok" the text of the
\* reply with the fields of the record the text holds
ApiOutcomes == {"ok", "auth", "rate_limit", "http_error", "timeout", "connection",
                "empty"}

\* _call_api: the text, a ValueError (HTTP 401) or an Exception
CallApi(reply) ==
    IF reply.api = "ok" THEN "text"
    ELSE IF reply.api = "auth" THEN "ValueError"
    ELSE "Exception"

MsgAuth == "API authentication failed. Please check your TOGETHER_API_KEY is correct."

MsgWrapped == "Failed to grade response: ..."

MsgRecordError == "Failed to parse AI grading response: ..."

LLMReturn(rec) == [kind |-> "dict", msg |-> "", rec |-> <<rec>>]

LLMRaise(msg) == [kind |-> "ValueError", msg |-> msg, rec |-> <<>>]

\* the sentinel handed to the caller instead of raising
CheckResult_ReturnsSentinel(reply, result) ==
    IF CallApi(reply) = "ValueError" THEN LLMRaise(MsgAuth)
    ELSE IF CallApi(reply) = "Exception" THEN LLMRaise(MsgWrapped)
    ELSE IF result.kind = "raise" THEN LLMRaise(MsgWrapped)
    ELSE IF result.kind = "sentinel" THEN LLMReturn([reply.rec EXCEPT !.error = TRUE])
    ELSE IF reply.rec.error THEN LLMRaise(MsgRecordError)
    ELSE LLMReturn(reply.rec)

\* lines 419-458: what becomes of the backend call and of result, the
\* outcome of _extract_python_dict on the reply's text
CheckResult(reply, result) ==
    IF CallApi(reply) = "ValueError" THEN LLMRaise(MsgAuth)
    ELSE IF CallApi(reply) = "Exception" THEN LLMRaise(MsgWrapped)
    ELSE IF result.kind = "raise" THEN LLMRaise(MsgWrapped)
    ELSE IF result.kind = "sentinel" THEN LLMRaise(MsgSentinel)
    ELSE IF reply.rec.error THEN LLMRaise(MsgRecordError)
    ELSE LLMReturn(reply.rec)

\* LLMClient.grade_response(prompt): the parsed record or a ValueError
LLMClient_grade_response(reply) == CheckResult(reply, ExtractPythonDict(reply.text))

(***************************************************************************)
(* Grader.grade_response                                                   *)
(***************************************************************************)
MsgUnableToParse ==
    "Unable to parse AI grading response: ... Please try submitting again or contact support if the issue persists."

MsgNoDetails == "Grading details not available from AI response"

\* the feedback messages that tell the student to submit again
RetryMessages == {MsgUnableToParse}

\* dict.get(key, default) on a field of the record
Get(field, default) == IF field.t = "missing" THEN default ELSE field

\* pydantic accepts a number or a numeric string for a float field
FloatOK(field) == field.t \in {"num", "numstr"}

GradeReturned(g) == [kind |-> "returned", exc |-> "none", grade |-> <<g>>]

GradeRaised(e) == [kind |-> "raised", exc |-> e, grade |-> <<>>]

\* the failure grade with the default label of the non-error path
ErrorGrade_DefaultState(question, feedback) ==
    [question_id |-> question.question_id,
     total_points_awarded |-> 0,
     total_points_possible |-> question.rubric.total_points,
     percentage |-> Rat(0, 1),
     criterion_grades |-> <<>>,
     overall_feedback |-> feedback,
     state |-> "Needs Improvement"]

\* the GradeResult of the two failure branches (lines 73-87 and 96-110)
ErrorGrade(question, feedback) ==
    [question_id |-> question.question_id,
     total_points_awarded |-> 0,
     total_points_possible |-> question.rubric.total_points,
     percentage |-> Rat(0, 1),
     criterion_grades |-> <<>>,
     overall_feedback |-> feedback,
     state |-> "Error"]

IsCgDict(item) == item.t = "dict"

\* the loop over the generator's criterion grades (lines 124-136)
LlmCriterionGrades(explanation_data) ==
    LET cgs == explanation_data.criterion_grades
        dicts == IF cgs.t = "list" THEN SelectSeq(cgs.items, IsCgDict) ELSE <<>>
    IN  [i \in 1..Len(dicts) |->
            [criterion |-> dicts[i].criterion,
             points_awarded |-> Rat(Get(dicts[i].points_awarded, Num(0)).v, 1),
             max_points |-> Get(dicts[i].max_points, Num(0)).v,
             explanation |-> "",
             satisfied |-> FALSE]]

\* CriterionGrade(...) rejects an element whose points are not numbers
LlmCriterionGradesInvalid(explanation_data) ==
    LET cgs == explanation_data.criterion_grades
    IN  /\ cgs.t = "list"
        /\ \E i \in 1..Len(cgs.items) :
              /\ cgs.items[i].t = "dict"
              /\ \/ ~FloatOK(Get(cgs.items[i].points_awarded, Num(0)))
                 \/ ~FloatOK(Get(cgs.items[i].max_points, Num(0)))

\* the reported total split evenly over the criteria
SynthesizedGrades_EvenSplit(rubric, total_awarded) ==
    [i \in 1..Len(rubric.criteria) |->
        LET max_pts == PointsOf(rubric, rubric.criteria[i])
            awarded_pts == IF rubric.total_points > 0
                           THEN Rat(total_awarded, Len(rubric.criteria))
                           ELSE Rat(0, 1)
        IN  [criterion |-> rubric.criteria[i],
             points_awarded |-> awarded_pts,
             max_points |-> max_pts,
             explanation |-> MsgNoDetails,
             satisfied |-> 10 * awarded_pts.n >= 7 * max_pts * awarded_pts.d]]

\* the proportional distribution over the rubric's criteria (lines 139-158)
SynthesizedGrades(rubric, total_awarded) ==
    [i \in 1..Len(rubric.criteria) |->
        LET max_pts == PointsOf(rubric, rubric.criteria[i])
            awarded_pts == IF rubric.total_points > 0
                           THEN Rat(total_awarded * max_pts, rubric.total_points)
                           ELSE Rat(0, 1)
        IN  [criterion |-> rubric.criteria[i],
             points_awarded |-> awarded_pts,
             max_points |-> max_pts,
             explanation |-> MsgNoDetails,
             satisfied |-> 10 * awarded_pts.n >= 7 * max_pts * awarded_pts.d]]

\* the percentage recomputed whatever the generator reported
Percentage_AlwaysRecomputed(awarded, possible, percentage) ==
    IF possible > 0 THEN Rat(awarded * 100, possible) ELSE Rat(percentage, 1)

\* the percentage of the result (lines 172-177); awarded and percentage are
\* numbers here
Percentage(awarded, possible, percentage) ==
    IF possible > 0
       /\ (percentage = 0 \/ Abs(percentage * possible - awarded * 100) > possible)
    THEN Rat(awarded * 100, possible)
    ELSE Rat(percentage, 1)

\* the total echoed by the generator's record instead of the rubric's
TotalPointsPossible_FromRecord(question, rec) ==
    Get(rec.total_points_possible, Num(question.rubric.total_points)).v

\* line 171: the rubric of the question, not the record, gives the total
TotalPointsPossible(question, rec) == question.rubric.total_points

\* lines 112-190: the record is a mapping without an error key
Reconcile(question, rec) ==
    LET rubric == question.rubric
        explanation_data ==
            IF rec.explanation.t = "dict" THEN rec.explanation
            ELSE [t |-> "dict", criterion_grades |-> [t |-> "missing", items |-> <<>>],
                  overall_feedback |-> [t |-> "missing", s |-> ""]]
        from_llm == LlmCriterionGrades(explanation_data)
        awarded == Get(rec.total_points_awarded, Num(0))
        percentage == Get(rec.percentage, Num(0))
        state == Get(rec.state, [t |-> "str", s |-> "Needs Improvement"])
        synthesize == from_llm = <<>> /\ rubric.criteria # <<>>
        criterion_grades ==
            IF synthesize THEN SynthesizedGrades(rubric, awarded.v) ELSE from_llm
    IN  IF LlmCriterionGradesInvalid(explanation_data)
        THEN GradeRaised("ValidationError")
        ELSE IF synthesize /\ rubric.total_points > 0 /\ awarded.t # "num"
        THEN GradeRaised("TypeError")
        ELSE IF explanation_data.overall_feedback.t = "bad"
        THEN GradeRaised("ValidationError")
        ELSE IF TotalPointsPossible(question, rec) > 0
                /\ (awarded.t # "num" \/ percentage.t # "num")
        THEN GradeRaised("TypeError")
        ELSE IF ~FloatOK(awarded) \/ ~FloatOK(percentage) \/ state.t = "bad"
        THEN GradeRaised("ValidationError")
        ELSE GradeReturned(
                [question_id |-> question.question_id,
                 total_points_awarded |-> awarded.v,
                 total_points_possible |-> TotalPointsPossible(question, rec),
                 percentage |-> Percentage(awarded.v, TotalPointsPossible(question, rec),
                                           percentage.v),
                 criterion_grades |-> criterion_grades,
                 overall_feedback |-> explanation_data.overall_feedback.s,
                 state |-> state.s])

\* lines 69-190: llm_response is the outcome of LLMClient.grade_response
GradeFrom(question, llm_response) ==
    IF llm_response.kind = "ValueError"
    THEN GradeReturned(ErrorGrade(question, MsgUnableToParse))
    ELSE IF llm_response.rec[1].error
    THEN GradeReturned(ErrorGrade(question, MsgSentinel))
    ELSE Reconcile(question, llm_response.rec[1])

\* Grader.grade_response(question, student_response); reply is what the
\* backend answers to the grading prompt
Grader_grade_response(question, reply) ==
    GradeFrom(question, LLMClient_grade_response(reply))

(***************************************************************************)
(* LLMClient.generate_question and QuestionGenerator                       *)
(***************************************************************************)
\* question_text of the generator's record: absent, empty, a text, a falsy
\* value that is no string (None, 0, []), a truthy value that is no string
QuestionTextVals ==
    {[t |-> "missing", s |-> ""], [t |-> "str", s |-> ""],
     [t |-> "str", s |-> "What is a heap?"], [t |-> "null", s |-> ""],
     [t |-> "bad", s |-> ""]}

\* the record holds no rubric
NoRubricData ==
    [t |-> "missing",
     criteria |-> [t |-> "missing", items |-> <<>>],
     points_per_criterion |-> [t |-> "missing", items |-> [c \in {} |-> Missing]],
     total_points |-> Missing]

\* the rubric of the generator's record: absent, not a mapping, a mapping
\* with well-typed fields, a mapping with criteria in one string and values
\* that are no numbers, a mapping with a negative total
RubricDataVals ==
    {NoRubricData,
     [NoRubricData EXCEPT !.t = "notdict"],
     [t |-> "dict",
      criteria |-> [t |-> "list", items |-> <<"A", "B">>],
      points_per_criterion |->
          [t |-> "dict",
           items |-> [c \in {"A", "B"} |-> IF c = "A" THEN Num(10) ELSE NumStr(20)]],
      total_points |-> Num(30)],
     [t |-> "dict",
      criteria |-> [t |-> "str", items |-> <<"A", " ", " B">>],
      points_per_criterion |->
          [t |-> "dict",
           items |-> [c \in {"A", "B"} |-> IF c = "A" THEN Num(10) ELSE Bad]],
      total_points |-> Bad],
     [t |-> "dict",
      criteria |-> [t |-> "bad", items |-> <<>>],
      points_per_criterion |-> [t |-> "notdict", items |-> [c \in {} |-> Missing]],
      total_points |-> Num(-10)]}

\* the generator's record for a question; error: the record has an error key
\* no difficulty: the key is absent from the record
NoDifficulty == [t |-> "missing", s |-> <<>>]

\* difficulty of the generator's record, a string being the sequence of
\* its characters: absent, None, a label, a label in other case between
\* blanks, a string that is no label, a value that is no string (7, [])
DifficultyVals ==
    {NoDifficulty,
     [t |-> "null", s |-> <<>>],
     [t |-> "str", s |-> <<"E", "a", "s", "y">>],
     [t |-> "str", s |-> <<" ", "h", "A", "R", "D", " ">>],
     [t |-> "str", s |-> <<"H", "a", "r", "d", "e", "r">>],
     [t |-> "bad", s |-> <<>>]}

\* the records: every question_text and rubric without difficulty, and
\* every difficulty in a record with a question_text
GenRecords ==
    [error : BOOLEAN, question_text : QuestionTextVals, rubric : RubricDataVals,
     difficulty : {NoDifficulty}]
    \cup [error : {FALSE}, question_text : {[t |-> "str", s |-> "What is a heap?"]},
          rubric : {NoRubricData}, difficulty : DifficultyVals]

NoGenRecord ==
    [error |-> FALSE, question_text |-> [t |-> "missing", s |-> ""],
     rubric |-> NoRubricData, difficulty |-> NoDifficulty]

MsgGenWrapped == "Failed to generate question: ..."

MsgFailedToParse == "Failed to parse AI response: ..."

MsgMissingQuestionText == "LLM response missing required field: question_text"

GenReturn(rec) == [kind |-> "dict", msg |-> "", preview |-> <<>>, rec |-> <<rec>>]

\* a ValueError; preview is the part of the reply's text that its message holds
GenRaise(msg, preview) ==
    [kind |-> "ValueError", msg |-> msg, preview |-> preview, rec |-> <<>>]

\* a client that returns a record with an error key to its caller
CheckGenerated_ReturnsErrorRecord(reply, result) ==
    IF CallApi(reply) = "ValueError" THEN GenRaise(MsgAuth, <<>>)
    ELSE IF CallApi(reply) = "Exception" THEN GenRaise(MsgGenWrapped, <<>>)
    ELSE IF result.kind = "raise" THEN GenRaise(MsgGenWrapped, <<>>)
    ELSE IF result.kind = "sentinel" THEN GenRaise(MsgSentinel, <<>>)
    ELSE GenReturn(reply.rec)

\* lines 359-405: what becomes of the backend call and of result, the
\* outcome of _extract_python_dict on the reply's text.  For the sentinel
\* the message is the sentinel's error text; raw_response is only printed.
CheckGenerated(reply, result) ==
    IF CallApi(reply) = "ValueError" THEN GenRaise(MsgAuth, <<>>)
    ELSE IF CallApi(reply) = "Exception" THEN GenRaise(MsgGenWrapped, <<>>)
    ELSE IF result.kind = "raise" THEN GenRaise(MsgGenWrapped, <<>>)
    ELSE IF result.kind = "sentinel" THEN GenRaise(MsgSentinel, <<>>)
    ELSE IF reply.rec.error THEN GenRaise(MsgFailedToParse, <<>>)
    ELSE GenReturn(reply.rec)

\* LLMClient.generate_question(prompt): the parsed record or a ValueError
LLMClient_generate_question(reply) ==
    CheckGenerated(reply, ExtractPythonDict(reply.text))

\* str.strip() on a piece of a comma-separated string
Trim(piece) ==
    CASE piece = " " -> ""
      [] piece = " B" -> "B"
      [] OTHER -> piece

NonEmpty(piece) == piece # ""

\* float(value), 0.0 when the conversion raises
ToFloat(value) == IF value.t \in {"num", "numstr"} THEN value.v ELSE 0

\* lines 76-110 and 137-142: the GradingRubric built from the record's rubric
NormalizeRubric(rubric_data) ==
    LET data == IF rubric_data.t = "dict" THEN rubric_data ELSE NoRubricData
        criteria ==
            IF data.criteria.t = "str"
            THEN SelectSeq([i \in 1..Len(data.criteria.items) |->
                               Trim(data.criteria.items[i])], NonEmpty)
            ELSE IF data.criteria.t = "list" THEN data.criteria.items
            ELSE <<>>
        points ==
            IF data.points_per_criterion.t = "dict"
            THEN [c \in DOMAIN data.points_per_criterion.items |->
                     ToFloat(data.points_per_criterion.items[c])]
            ELSE NoPoints
    IN  [criteria |-> criteria,
         points_per_criterion |-> points,
         total_points |-> ToFloat(Get(data.total_points, Num(0)))]

\* the letters of the labels, upper case and lower case
Letters ==
    <<<<"A", "a">>, <<"D", "d">>, <<"E", "e">>, <<"H", "h">>, <<"I", "i">>,
      <<"M", "m">>, <<"R", "r">>, <<"S", "s">>, <<"U", "u">>, <<"Y", "y">>>>

\* str.upper() and str.lower() on one character
ToUpper(c) ==
    IF \E k \in 1..Len(Letters) : Letters[k][2] = c
    THEN Letters[CHOOSE k \in 1..Len(Letters) : Letters[k][2] = c][1]
    ELSE c

ToLower(c) ==
    IF \E k \in 1..Len(Letters) : Letters[k][1] = c
    THEN Letters[CHOOSE k \in 1..Len(Letters) : Letters[k][1] = c][2]
    ELSE c

\* str.strip() on a string of characters
StripBlanks(str) ==
    LET inked == {i \in 1..Len(str) : str[i] # " "}
    IN  IF inked = {} THEN <<>>
        ELSE SubSeq(str, CHOOSE i \in inked : \A j \in inked : i <= j,
                         CHOOSE i \in inked : \A j \in inked : j <= i)

\* str.capitalize(): the first character in upper case, the rest in lower
Capitalize(str) ==
    [i \in 1..Len(str) |-> IF i = 1 THEN ToUpper(str[i]) ELSE ToLower(str[i])]

\* line 132: the three labels
DifficultyLabels ==
    {<<"E", "a", "s", "y">>, <<"M", "e", "d", "i", "u", "m">>, <<"H", "a", "r", "d">>}

\* None as the difficulty of a question
AbsentDifficulty == [t |-> "null", s |-> <<>>]

\* lines 69 and 129-135: llm_response.get("difficulty", None), a string
\* replaced by its label or by None, any other value left as it is
NormalizeDifficulty(difficulty) ==
    IF difficulty.t = "str"
    THEN IF Capitalize(StripBlanks(difficulty.s)) \in DifficultyLabels
         THEN [t |-> "str", s |-> Capitalize(StripBlanks(difficulty.s))]
         ELSE AbsentDifficulty
    ELSE IF difficulty.t = "missing" THEN AbsentDifficulty
    ELSE difficulty

\* ExamQuestion: the fields set from the record and from the request
ExamQuestion(id, text, domain, rubric, difficulty) ==
    [question_id |-> id, question_text |-> text, domain |-> domain, rubric |-> rubric,
     difficulty |-> difficulty]

GenReturned(q) ==
    [ok |-> TRUE, question |-> <<q>>, exc |-> "none", msg |-> "", preview |-> <<>>]

GenFailed(exc, msg, preview) ==
    [ok |-> FALSE, question |-> <<>>, exc |-> exc, msg |-> msg, preview |-> preview]

\* a generator that builds the question without looking at question_text
GenerateFrom_AcceptsEmpty(domain, id, llm_response) ==
    IF llm_response.kind = "ValueError"
    THEN GenFailed("ValueError", llm_response.msg, llm_response.preview)
    ELSE IF llm_response.rec[1].error
    THEN GenFailed("ValueError", MsgGenWrapped, <<>>)
    ELSE IF \/ llm_response.rec[1].question_text.t = "bad"
            \/ NormalizeDifficulty(llm_response.rec[1].difficulty).t = "bad"
    THEN GenFailed("ValidationError", "", <<>>)
    ELSE GenReturned(ExamQuestion(id, llm_response.rec[1].question_text.s, domain,
                                  NormalizeRubric(llm_response.rec[1].rubric),
                                  NormalizeDifficulty(llm_response.rec[1].difficulty)))

\* lines 49-163: llm_response is the outcome of LLMClient.generate_question
GenerateFrom(domain, id, llm_response) ==
    IF llm_response.kind = "ValueError"
    THEN GenFailed("ValueError", llm_response.msg, llm_response.preview)
    ELSE IF llm_response.rec[1].error
    THEN GenFailed("ValueError", MsgGenWrapped, <<>>)
    ELSE IF \/ llm_response.rec[1].question_text.t \in {"missing", "null"}
            \/ llm_response.rec[1].question_text = [t |-> "str", s |-> ""]
    THEN GenFailed("ValueError", MsgMissingQuestionText, <<>>)
    ELSE IF \/ llm_response.rec[1].question_text.t = "bad"
            \/ NormalizeDifficulty(llm_response.rec[1].difficulty).t = "bad"
    THEN GenFailed("ValidationError", "", <<>>)
    ELSE GenReturned(ExamQuestion(id, llm_response.rec[1].question_text.s, domain,
                                  NormalizeRubric(llm_response.rec[1].rubric),
                                  NormalizeDifficulty(llm_response.rec[1].difficulty)))

\* QuestionGenerator.generate_question(domain); id stands for the uuid4
\* drawn for the question, reply is what the backend answers to the prompt
QuestionGenerator_generate_question(domain, id, reply) ==
    GenerateFrom(domain, id, LLMClient_generate_question(reply))

RECURSIVE BatchLoop(_, _, _, _)
RECURSIVE BatchStep_SkipsFailure(_, _, _, _, _)
RECURSIVE BatchStep(_, _, _, _, _)

\* a loop body that goes on to the next question after a failure
BatchStep_SkipsFailure(domain, replies, i, questions, generated) ==
    IF generated.ok
    THEN BatchLoop(domain, replies, i + 1, Append(questions, generated.question[1]))
    ELSE BatchLoop(domain, replies, i + 1, questions)

\* lines 186-187: the question is appended; an exception of
\* generate_question leaves the loop and the function
BatchStep(domain, replies, i, questions, generated) ==
    IF generated.ok
    THEN BatchLoop(domain, replies, i + 1, Append(questions, generated.question[1]))
    ELSE [ok |-> FALSE, questions |-> <<>>, calls |-> i, exc |-> generated.exc,
          msg |-> generated.msg, preview |-> generated.preview]

\* lines 184-188: iteration i of the loop over range(count); replies[i] is
\* what the backend answers to call i
BatchLoop(domain, replies, i, questions) ==
    IF i > Len(replies)
    THEN [ok |-> TRUE, questions |-> questions, calls |-> Len(replies),
          exc |-> "none", msg |-> "", preview |-> <<>>]
    ELSE BatchStep(domain, replies, i, questions,
                   QuestionGenerator_generate_question(domain, i, replies[i]))

\* QuestionGenerator.generate_question_batch(domain, count = Len(replies))
QuestionGenerator_generate_question_batch(domain, replies) ==
    BatchLoop(domain, replies, 1, <<>>)

(***************************************************************************)
(* SpecExtract: _extract_python_dict on every text of at most MaxLen       *)
(* lexemes and on records of nesting depth up to MaxDepth wrapped in       *)
(* prose or fences                                                         *)
(***************************************************************************)
RECURSIVE Records(_)
\* the texts of well-formed records nested at most d deep
Records(d) ==
    IF d = 0 THEN {}
    ELSE {<<"LB">> \o e \o n \o f \o <<"RB">> :
             e \in {<<>>, <<"E">>},
             n \in {<<>>} \cup {<<"K">> \o r : r \in Records(d - 1)},
             f \in {<<>>, <<"E">>}}

Wrappers == {<<<<>>, <<>>>>, <<<<"W">>, <<>>>>, <<<<>>, <<"W">>>>, <<<<"W">>, <<"W">>>>,
             <<<<"W", "W">>, <<"W", "NL", "W">>>>, <<<<"F", "NL">>, <<"NL", "F">>>>,
             <<<<"F", "PY", "NL">>, <<"NL", "F">>>>}

WrappedTexts == {w[1] \o r \o w[2] : w \in Wrappers, r \in Records(MaxDepth)}

\* a fenced block around t, with or without the tag
Fenced(tag, t) == <<"F">> \o tag \o <<"NL">> \o t \o <<"NL", "F">>

\* the blocks of the texts with two fenced blocks
Blocks == Records(1) \cup {<<"W">>, <<"LB", "S", "RB">>}

\* ```python / {'percentage':None} / ```, and the texts with two fenced blocks
FencedTexts ==
    {<<"F", "PY", "NL", "LB", "S", "RB", "NL", "F">>}
    \cup {Fenced(tag, a) \o sep \o Fenced(tag, b) :
              a \in Blocks, b \in Blocks, tag \in {<<>>, <<"PY">>},
              sep \in {<<"NL">>, <<"W">>}}

\* the texts about as long as the preview of the sentinel
PreviewTexts == UNION {[1..n -> PreviewLexemes] : n \in 0..(MaxLen - 1)}

\* records with a JSON null and with a string value that holds fences
NoteRecords ==
    {<<"LB">> \o e \o n \o <<"RB">> :
        e \in {<<>>, <<"P">>, <<"Q">>, <<"E", "Q">>, <<"S", "Q">>, NoteWritten},
        n \in {<<>>, <<"K", "LB", "RB">>, <<"K", "LB", "Q", "RB">>}}

NoteTexts ==
    {w[1] \o r \o w[2] :
        w \in {<<<<>>, <<>>>>, <<<<"W">>, <<"W">>>>, <<<<"F", "NL">>, <<"NL", "F">>>>},
        r \in NoteRecords}

\* a record inside a second pair of braces, alone and between prose
DoubledTexts ==
    {<<"LB", "LB", "E", "RB", "RB">>, <<"W", "LB", "LB", "E", "RB", "RB", "W">>}

Texts == UNION {[1..n -> Lexemes] : n \in 0..MaxLen} \cup WrappedTexts
         \cup FencedTexts \cup PreviewTexts \cup NoteTexts \cup DoubledTexts

NotExtracted == [kind |-> "pending", val |-> NoVal, raw |-> <<>>, raw_part |-> 0,
                 sentinel |-> <<>>, exc |-> "none", method |-> 0]

NotReextracted == [text |-> <<>>, result |-> NotExtracted]

NoQuestion == Question(0, [criteria |-> <<>>, points_per_criterion |-> NoPoints,
                           total_points |-> 0])

NoRecord ==
    [total_points_awarded |-> Missing, total_points_possible |-> Missing,
     percentage |-> Missing, state |-> [t |-> "missing", s |-> ""],
     explanation |-> [t |-> "notdict",
                      criterion_grades |-> [t |-> "missing", items |-> <<>>],
                      overall_feedback |-> [t |-> "missing", s |-> ""]],
     error |-> FALSE]

NoReply == [api |-> "empty", text |-> <<>>, rec |-> NoRecord]

NotGraded == [kind |-> "pending", exc |-> "none", grade |-> <<>>]

NoSessions == [s \in {} |-> 0]

ExtractIdle ==
    /\ response_text = <<>>
    /\ extracted = NotExtracted
    /\ reextracted = NotReextracted
    /\ xpc = "idle"

GradeIdle ==
    gQuestion = NoQuestion /\ gReply = NoReply /\ gOutcome = NotGraded /\ gpc = "idle"

NotGenerated == [op |-> "none", ok |-> FALSE, questions |-> <<>>, calls |-> 0,
                 exc |-> "none", msg |-> "", preview |-> <<>>]

GenerateIdle ==
    qDomain = "" /\ qReplies = <<>> /\ qOutcome = NotGenerated /\ qpc = "idle"

SessionIdle == sessions = NoSessions /\ inflight = {} /\ running = {} /\ http = 0

InitExtract ==
    /\ response_text \in Texts
    /\ extracted = NotExtracted
    /\ reextracted = NotReextracted
    /\ xpc = "call"
    /\ GradeIdle
    /\ GenerateIdle
    /\ SessionIdle

extract_python_dict ==
    /\ xpc = "call"
    /\ extracted' = ExtractPythonDict(response_text)
    /\ xpc' = "done"
    /\ UNCHANGED <<response_text, reextracted, gvars, qvars, svars>>

\* the mapping the first call returned is serialized and extracted again
extract_serialized ==
    /\ xpc = "done"
    /\ extracted.kind = "dict"
    /\ \E s \in {Serialize(extracted.val[1])} : reextracted' = Reextract(s)
    /\ xpc' = "again"
    /\ UNCHANGED <<response_text, extracted, gvars, qvars, svars>>

NextExtract == extract_python_dict \/ extract_serialized

SpecExtract == InitExtract /\ [][NextExtract]_vars

(***************************************************************************)
(* SpecGrade: grade_response on every rubric and every backend reply       *)
(***************************************************************************)
Questions == {Question(1, r) : r \in Rubrics}

\* reply texts that hold no record: prose alone, a record in doubled braces
OtherTexts == {<<"W">>, <<"LB", "LB", "E", "RB", "RB">>}

\* the backend's answers: the failures of the call, texts without a record,
\* and every record as a text of its own or wrapped in prose
GradeReplies ==
    {[api |-> a, text |-> <<>>, rec |-> NoRecord] : a \in ApiOutcomes \ {"ok"}}
    \cup {[api |-> "ok", text |-> t, rec |-> NoRecord] : t \in OtherTexts}
    \cup {[api |-> "ok", text |-> <<"LB", "E", "RB">>, rec |-> r] : r \in GradeRecords}
    \cup {[api |-> "ok", text |-> <<"W", "LB", "E", "RB", "W">>, rec |-> r] :
             r \in {x \in GradeRecords : x.explanation.t = "notdict"}}

InitGrade ==
    /\ gQuestion \in Questions
    /\ gReply \in GradeReplies
    /\ gOutcome = NotGraded
    /\ gpc = "call"
    /\ ExtractIdle
    /\ GenerateIdle
    /\ SessionIdle

grade_response ==
    /\ gpc = "call"
    /\ gOutcome' = Grader_grade_response(gQuestion, gReply)
    /\ gpc' = "done"
    /\ UNCHANGED <<gQuestion, gReply, xvars, qvars, svars>>

NextGrade == grade_response

SpecGrade == InitGrade /\ [][NextGrade]_vars

(***************************************************************************)
(* SpecGenerate: generate_question and generate_question_batch on every    *)
(* domain and every sequence of at most MaxCount backend replies           *)
(***************************************************************************)
Domains == {"Computer Science", "History"}

\* the backend's answers: the failures of the call, texts without a record,
\* and the records as a text of their own
GenReplies ==
    {[api |-> a, text |-> <<>>, rec |-> NoGenRecord] : a \in ApiOutcomes \ {"ok"}}
    \cup {[api |-> "ok", text |-> t, rec |-> NoGenRecord] : t \in OtherTexts}
    \cup {[api |-> "ok", text |-> <<"LB", "E", "RB">>, rec |-> r] :
             r \in {x \in GenRecords : x.error => x.rubric = NoRubricData}}

InitGenerate ==
    /\ qDomain \in Domains
    /\ qReplies \in UNION {[1..n -> GenReplies] : n \in 0..MaxCount}
    /\ qOutcome = NotGenerated
    /\ qpc = "call"
    /\ ExtractIdle
    /\ GradeIdle
    /\ SessionIdle

\* one call of generate_question, answered by the first reply
generate_question ==
    /\ qpc = "call"
    /\ qReplies # <<>>
    /\ \E g \in {QuestionGenerator_generate_question(qDomain, 1, qReplies[1])} :
           qOutcome' = [op |-> "generate_question", ok |-> g.ok,
                        questions |-> g.question, calls |-> 1, exc |-> g.exc,
                        msg |-> g.msg, preview |-> g.preview]
    /\ qpc' = "done"
    /\ UNCHANGED <<qDomain, qReplies, xvars, gvars, svars>>

\* one call of generate_question_batch with count = Len(qReplies)
generate_question_batch ==
    /\ qpc = "call"
    /\ \E b \in {QuestionGenerator_generate_question_batch(qDomain, qReplies)} :
           qOutcome' = [op |-> "generate_question_batch", ok |-> b.ok,
                        questions |-> b.questions, calls |-> b.calls,
                        exc |-> b.exc, msg |-> b.msg, preview |-> b.preview]
    /\ qpc' = "done"
    /\ UNCHANGED <<qDomain, qReplies, xvars, gvars, svars>>

NextGenerate == generate_question \/ generate_question_batch

SpecGenerate == InitGenerate /\ [][NextGenerate]_vars

(***************************************************************************)
(* SpecErrorKey: grade_response and generate_question answered by records  *)
(* that the extractor returns and that have a top-level key named error    *)
(***************************************************************************)
\* the questions whose rubric has the total of 30 points
ErrorKeyQuestions == {q \in Questions : q.rubric.total_points = 30}

ErrorKeyGradeReplies == {r \in GradeReplies : r.rec.error}

ErrorKeyGenReplies == {r \in GenReplies : r.rec.error}

InitErrorKey ==
    /\ gQuestion \in ErrorKeyQuestions
    /\ gReply \in ErrorKeyGradeReplies
    /\ gOutcome = NotGraded
    /\ gpc = "call"
    /\ qDomain = "History"
    /\ qReplies \in [1..1 -> ErrorKeyGenReplies]
    /\ qOutcome = NotGenerated
    /\ qpc = "call"
    /\ ExtractIdle
    /\ SessionIdle

NextErrorKey == grade_response \/ generate_question

SpecErrorKey == InitErrorKey /\ [][NextErrorKey]_vars

(***************************************************************************)
(* Spec: the handlers of main.py.  The handlers are coroutines that run on *)
(* one event loop.  submit_response is split where it calls the backend:   *)
(* submit_response_begin runs lines 194-217 and the prompt formatting,     *)
(* submit_response_finish runs the rest once the backend has answered.     *)
(***************************************************************************)
SessionIds == 1..MaxSessions

\* an id no session and no question has
UnknownId == 0

\* uuid4 values are distinct; question i of session s is given the id 10 s + i
QuestionId(s, i) == 10 * s + i

SessionRubric ==
    [criteria |-> <<"A", "B">>,
     points_per_criterion |-> [c \in {"A", "B"} |-> IF c = "A" THEN 10 ELSE 20],
     total_points |-> 30]

GoodRecord ==
    [NoRecord EXCEPT !.total_points_awarded = Num(15), !.percentage = Num(50),
                     !.state = [t |-> "str", s |-> "P"]]

\* the backend's answers in Spec: a timeout, a usable record, and a record
\* whose awarded total is not a number
SessionReplies ==
    {[api |-> "timeout", text |-> <<>>, rec |-> NoRecord],
     [api |-> "ok", text |-> <<"LB", "E", "RB">>, rec |-> GoodRecord],
     [api |-> "ok", text |-> <<"LB", "E", "RB">>,
      rec |-> [GoodRecord EXCEPT !.total_points_awarded = Bad]]}

SubmitRequests ==
    {[session_id |-> UnknownId, question_id |-> UnknownId]}
    \cup UNION {{[session_id |-> s, question_id |-> q] :
                    q \in {UnknownId} \cup {QuestionId(s, i) : i \in 1..MaxQuestions}} :
                 s \in SessionIds}

\* the number of responses recorded in all sessions
RECURSIVE TotalResponses(_)
TotalResponses(ids) ==
    IF ids = {} THEN 0
    ELSE LET s == CHOOSE x \in ids : TRUE
         IN  Len(sessions[s].responses) + TotalResponses(ids \ {s})

\* the index of the first question with this id (lines 200-204), 0 if none
FindQuestion(session, question_id) ==
    LET hits == {i \in 1..Len(session.questions) :
                    session.questions[i].question_id = question_id}
    IN  IF hits = {} THEN 0 ELSE CHOOSE i \in hits : \A j \in hits : i <= j

\* handlers that start while another handler waits for the backend
LoopIdle_Unserialized == TRUE

\* a coroutine runs from one await to the next; the handlers have none, so
\* a handler starts only when no other handler is running
LoopIdle == running = {}

Init ==
    /\ sessions = NoSessions
    /\ inflight = {}
    /\ running = {}
    /\ http = 0
    /\ ExtractIdle
    /\ GradeIdle
    /\ GenerateIdle

\* a handler that stores the session although generation failed
create_exam_StoresOnFailure(num_questions, batch) ==
    /\ LoopIdle
    /\ DOMAIN sessions # SessionIds
    /\ LET session_id == CHOOSE s \in SessionIds \ DOMAIN sessions :
                             \A x \in SessionIds \ DOMAIN sessions : s <= x
           session ==
               [questions |-> [i \in 1..Len(batch.rubrics) |->
                                  Question(QuestionId(session_id, i), batch.rubrics[i])],
                responses |-> <<>>,
                grades |-> <<>>,
                completed_at |-> FALSE]
       IN  sessions' = [s \in DOMAIN sessions \cup {session_id} |->
                           IF s = session_id THEN session ELSE sessions[s]]
    /\ http' = IF batch.ok THEN 200 ELSE 500
    /\ UNCHANGED <<inflight, running, xvars, gvars, qvars>>

\* POST /api/create-exam (lines 58-141); batch is what
\* generate_question_batch produces: a failure or the rubrics generated
create_exam(num_questions, batch) ==
    /\ LoopIdle
    /\ IF ~batch.ok
       THEN /\ http' = 500
            /\ UNCHANGED sessions
       ELSE /\ DOMAIN sessions # SessionIds
            /\ LET session_id == CHOOSE s \in SessionIds \ DOMAIN sessions :
                                     \A x \in SessionIds \ DOMAIN sessions : s <= x
                   session ==
                       [questions |-> [i \in 1..num_questions |->
                                          Question(QuestionId(session_id, i),
                                                   batch.rubrics[i])],
                        responses |-> <<>>,
                        grades |-> <<>>,
                        completed_at |-> FALSE]
               IN  sessions' = [s \in DOMAIN sessions \cup {session_id} |->
                                   IF s = session_id THEN session ELSE sessions[s]]
            /\ http' = 200
    /\ UNCHANGED <<inflight, running, xvars, gvars, qvars>>

\* a POST /api/submit-response request arrives (lines 186-192)
post_submit_response(req) ==
    /\ req \notin inflight
    /\ Cardinality(inflight) < MaxInflight
    /\ inflight' = inflight \cup {req}
    /\ UNCHANGED <<sessions, running, http, xvars, gvars, qvars>>

\* a handler that records the response before it looks for the question
submit_response_begin_AppendsFirst(req) ==
    /\ LoopIdle
    /\ req \in inflight
    /\ inflight' = inflight \ {req}
    /\ IF req.session_id \notin DOMAIN sessions
       THEN /\ http' = 404
            /\ UNCHANGED <<sessions, running>>
       ELSE /\ TotalResponses(DOMAIN sessions) < MaxResponses
            /\ sessions' = [sessions EXCEPT ![req.session_id].responses =
                               Append(@, [question_id |-> req.question_id])]
            /\ IF FindQuestion(sessions[req.session_id], req.question_id) = 0
               THEN /\ http' = 404
                    /\ UNCHANGED running
               ELSE /\ running' = running \cup {req}
                    /\ UNCHANGED http
    /\ UNCHANGED <<xvars, gvars, qvars>>

\* submit_response up to the call of the backend (lines 194-217, 44-66)
submit_response_begin(req) ==
    /\ LoopIdle
    /\ req \in inflight
    /\ inflight' = inflight \ {req}
    /\ IF req.session_id \notin DOMAIN sessions
       THEN /\ http' = 404
            /\ UNCHANGED <<sessions, running>>
       ELSE IF FindQuestion(sessions[req.session_id], req.question_id) = 0
       THEN /\ http' = 404
            /\ UNCHANGED <<sessions, running>>
       ELSE /\ TotalResponses(DOMAIN sessions) < MaxResponses
            /\ sessions' = [sessions EXCEPT ![req.session_id].responses =
                               Append(@, [question_id |-> req.question_id])]
            /\ running' = running \cup {req}
            /\ UNCHANGED http
    /\ UNCHANGED <<xvars, gvars, qvars>>

\* a handler that overwrites the rubric's total with the total it awarded
submit_response_finish_OverwritesTotal(req, reply) ==
    /\ req \in running
    /\ running' = running \ {req}
    /\ LET session == sessions[req.session_id]
           question == session.questions[FindQuestion(session, req.question_id)]
       IN  \E outcome \in {Grader_grade_response(question, reply)} :
           IF outcome.kind = "returned"
           THEN /\ sessions' =
                       [sessions EXCEPT ![req.session_id] =
                           [session EXCEPT
                               !.grades = Append(@, outcome.grade[1]),
                               !.questions[FindQuestion(session, req.question_id)]
                                   .rubric.total_points =
                                       outcome.grade[1].total_points_awarded,
                               !.completed_at =
                                   IF Len(session.responses) = Len(session.questions)
                                   THEN TRUE ELSE @]]
                /\ http' = 200
           ELSE /\ http' = 500
                /\ UNCHANGED sessions
    /\ UNCHANGED <<inflight, xvars, gvars, qvars>>

\* submit_response from the backend's answer on (lines 219-248)
submit_response_finish(req, reply) ==
    /\ req \in running
    /\ running' = running \ {req}
    /\ LET session == sessions[req.session_id]
           question == session.questions[FindQuestion(session, req.question_id)]
       IN  \E outcome \in {Grader_grade_response(question, reply)} :
           IF outcome.kind = "returned"
           THEN /\ sessions' =
                       [sessions EXCEPT ![req.session_id] =
                           [session EXCEPT
                               !.grades = Append(@, outcome.grade[1]),
                               !.completed_at =
                                   IF Len(session.responses) = Len(session.questions)
                                   THEN TRUE ELSE @]]
                /\ http' = 200
           ELSE /\ http' = 500
                /\ UNCHANGED sessions
    /\ UNCHANGED <<inflight, xvars, gvars, qvars>>

\* the session ids a request may name
RequestedIds == SessionIds \cup {UnknownId}

\* GET /exam/{session_id} (lines 145-183): the page of the first question
\* without a response, or the results when there is none
exam_page(session_id) ==
    /\ LoopIdle
    /\ http' = IF session_id \in DOMAIN sessions THEN 200 ELSE 404
    /\ UNCHANGED <<sessions, inflight, running, xvars, gvars, qvars>>

\* GET /results/{session_id} (lines 251-267)
results_page(session_id) ==
    /\ LoopIdle
    /\ http' = IF session_id \in DOMAIN sessions THEN 200 ELSE 404
    /\ UNCHANGED <<sessions, inflight, running, xvars, gvars, qvars>>

\* GET /api/session/{session_id} (lines 270-286)
get_session(session_id) ==
    /\ LoopIdle
    /\ http' = IF session_id \in DOMAIN sessions THEN 200 ELSE 404
    /\ UNCHANGED <<sessions, inflight, running, xvars, gvars, qvars>>

\* the backend's answers to the generation prompts in Spec: a timeout and
\* a record with a question text and a well-typed rubric
SessionGenReplies ==
    {[api |-> "timeout", text |-> <<>>, rec |-> NoGenRecord],
     [api |-> "ok", text |-> <<"LB", "E", "RB">>,
      rec |-> [error |-> FALSE,
               question_text |-> [t |-> "str", s |-> "What is a heap?"],
               rubric |-> [t |-> "dict",
                           criteria |-> [t |-> "list", items |-> <<"A", "B">>],
                           points_per_criterion |->
                               [t |-> "dict",
                                items |-> [c \in {"A", "B"} |->
                                              IF c = "A" THEN Num(10) ELSE NumStr(20)]],
                           total_points |-> Num(30)],
               difficulty |-> NoDifficulty]]}

\* lines 70-75: generate_question_batch answered by replies; the rubrics of
\* the questions it returns
BatchOf(replies) ==
    LET rubricsOf(b) == [ok |-> b.ok,
                         rubrics |-> [i \in 1..Len(b.questions) |->
                                         b.questions[i].rubric]]
    IN  rubricsOf(QuestionGenerator_generate_question_batch("Computer Science",
                                                            replies))

\* the outcomes of lines 61-75 for num_questions = n: the API key is not
\* configured, or what generate_question_batch produces
Batches(n) ==
    {[ok |-> FALSE, rubrics |-> <<>>]}
    \cup {BatchOf(replies) : replies \in [1..n -> SessionGenReplies]}

Next ==
    \/ \E n \in 0..MaxQuestions :
          \E batch \in Batches(n) : create_exam(n, batch)
    \/ \E req \in SubmitRequests : post_submit_response(req)
    \/ \E req \in SubmitRequests : submit_response_begin(req)
    \/ \E req \in SubmitRequests, reply \in SessionReplies :
          submit_response_finish(req, reply)
    \/ \E session_id \in RequestedIds : exam_page(session_id)
    \/ \E session_id \in RequestedIds : results_page(session_id)
    \/ \E session_id \in RequestedIds : get_session(session_id)

Spec == Init /\ [][Next]_vars

(***************************************************************************)
(* Properties of Grader.grade_response (SpecGrade)                         *)
(***************************************************************************)
GradeDone == gpc = "done" /\ gOutcome.kind = "returned"

\* C1: every GradeResult that grade_response returns, on the normal path
\* and on the Error paths, has total_points_possible equal to the rubric's
\* total_points, whatever total the generator's record carried
C1_TotalFromRubric ==
    GradeDone =>
        gOutcome.grade[1].total_points_possible = gQuestion.rubric.total_points

\* a normal grade for a record that echoes a total of 100 for a rubric of 30
C1_Witness ==
    /\ GradeDone
    /\ gOutcome.grade[1].state = "P"
    /\ gReply.rec.total_points_possible = Num(100)
    /\ gQuestion.rubric.total_points = 30

\* C2: grade_response never raises; whatever the backend call and the
\* extraction produce, it returns a GradeResult
C2_NeverRaises == gpc = "done" => gOutcome.kind = "returned"

NoBreakdownCase ==
    /\ GradeDone
    /\ gOutcome.grade[1].state # "Error"
    /\ gQuestion.rubric.criteria # <<>>
    /\ \/ gReply.rec.explanation.t # "dict"
       \/ gReply.rec.explanation.criterion_grades.t # "list"
       \/ \A i \in 1..Len(gReply.rec.explanation.criterion_grades.items) :
             gReply.rec.explanation.criterion_grades.items[i].t = "nondict"

ReportedTotal == Get(gReply.rec.total_points_awarded, Num(0)).v

FailureCase ==
    /\ gpc = "done"
    /\ \/ gReply.api # "ok"
       \/ ExtractPythonDict(gReply.text).kind = "sentinel"

C4_NeverRaises == xpc = "done" => extracted.kind \in {"dict", "sentinel"}

\* the text is prose, then one well-formed record, then prose
WrappedRecord(t) ==
    LET open == Find(t, "LB")
        close == IF open = 0 THEN 0 ELSE MatchClose(t, open, 0)
    IN  /\ open > 1
        /\ close # 0
        /\ close < Len(t)
        /\ \A k \in 1..(open - 1) : t[k] = "W"
        /\ \A k \in (close + 1)..Len(t) : t[k] \in {"W", "NL"}
        /\ literal_eval(SubSeq(t, open, close)).kind = "dict"

\* C5: for a preamble, one well-formed record (nested sub-records allowed)
\* and trailing prose, the result is exactly the outermost record
C5_WholeRecord ==
    (xpc = "done" /\ WrappedRecord(response_text)) =>
        /\ extracted.kind = "dict"
        /\ extracted.val =
               literal_eval(SubSeq(response_text, Find(response_text, "LB"),
                                   MatchClose(response_text,
                                              Find(response_text, "LB"), 0))).val

(***************************************************************************)
(* Properties of the sessions (Spec)                                       *)
(***************************************************************************)
Aligned(session) ==
    \A i \in 1..Len(session.grades) :
        /\ i <= Len(session.responses)
        /\ session.grades[i].question_id = session.responses[i].question_id

C10_NothingSerializes ==
    \A req \in inflight :
        (/\ \E r \in running : r.session_id = req.session_id
         /\ FindQuestion(sessions[req.session_id], req.question_id) # 0
         /\ TotalResponses(DOMAIN sessions) < MaxResponses)
            => ENABLED submit_response_begin(req)

\* C10 amended: the handlers of two requests for one session never
\* interleave, so grades keep the order of responses: a session that holds
\* as many grades as responses holds them in the same order
C10_SerializedOrder ==
    \A s \in DOMAIN sessions :
        Len(sessions[s].grades) = Len(sessions[s].responses) => Aligned(sessions[s])

\* one request waits for the backend while a request for another question
\* of the same session has arrived
C10_Witness ==
    \E r \in running : \E req \in inflight :
        /\ r.session_id = req.session_id
        /\ req.question_id # r.question_id
        /\ FindQuestion(sessions[r.session_id], req.question_id) # 0

(***************************************************************************)
(* Properties of QuestionGenerator (SpecGenerate)                          *)
(***************************************************************************)
BatchDone == qpc = "done" /\ qOutcome.op = "generate_question_batch"

\* the calls of a batch whose generation fails, given the backend's replies
FailingCalls ==
    {i \in 1..Len(qReplies) :
        ~QuestionGenerator_generate_question(qDomain, i, qReplies[i]).ok}

\* C11: generate_question_batch(count = n) generates one question after
\* another; when every generation succeeds it returns n questions in
\* generation order, all of the requested domain; when one fails the error
\* propagates, no later generation is attempted and no list is returned
C11_BatchSequential ==
    BatchDone =>
        IF FailingCalls = {}
        THEN /\ qOutcome.ok
             /\ Len(qOutcome.questions) = Len(qReplies)
             /\ qOutcome.calls = Len(qReplies)
             /\ \A i \in 1..Len(qReplies) :
                   /\ qOutcome.questions[i] =
                          QuestionGenerator_generate_question(qDomain, i,
                                                              qReplies[i]).question[1]
                   /\ qOutcome.questions[i].domain = qDomain
        ELSE /\ ~qOutcome.ok
             /\ qOutcome.questions = <<>>
             /\ qOutcome.exc # "none"
             /\ \A i \in FailingCalls : qOutcome.calls <= i
             /\ qOutcome.calls \in FailingCalls

\* a batch of two whose first generation failed: one call was made
C11_Witness ==
    /\ BatchDone
    /\ Len(qReplies) = 2
    /\ ~qOutcome.ok
    /\ qOutcome.calls = 1

(***************************************************************************)
(* Properties of create_exam (Spec)                                        *)
(***************************************************************************)
\* C12: when the generation of any question fails during create_exam, the
\* requester is told (status 500) and the sessions map is left as it was; a
\* session enters the map only in a step in which every one of the
\* requested questions was generated, and it holds all of them
C12_NoSessionOnFailure ==
    [][/\ \A n \in 0..MaxQuestions : \A replies \in [1..n -> SessionGenReplies] :
             (/\ create_exam(n, BatchOf(replies))
              /\ \E i \in 1..n :
                    ~QuestionGenerator_generate_question("Computer Science", i,
                                                         replies[i]).ok)
                 => (sessions' = sessions /\ http' = 500)
       /\ DOMAIN sessions' # DOMAIN sessions =>
             \E n \in 0..MaxQuestions : \E replies \in [1..n -> SessionGenReplies] :
                /\ create_exam(n, BatchOf(replies))
                /\ \A i \in 1..n :
                      QuestionGenerator_generate_question("Computer Science", i,
                                                          replies[i]).ok
                /\ \A s \in DOMAIN sessions' \ DOMAIN sessions :
                      Len(sessions'[s].questions) = n]_vars

\* a failed create_exam before any session exists
C12_Witness == http = 500 /\ DOMAIN sessions = {}

(***************************************************************************)
(* Properties of generate_question (SpecGenerate)                          *)
(***************************************************************************)
GenerateDone == qpc = "done" /\ qOutcome.op = "generate_question"

\* the backend answered the call and the extractor returned its sentinel
GenSentinelCase ==
    /\ GenerateDone
    /\ qReplies[1].api = "ok"
    /\ ExtractPythonDict(qReplies[1].text).kind = "sentinel"

\* the backend answered the call, the extractor returned a record, and the
\* record has no question_text or an empty one
NoQuestionTextCase ==
    /\ GenerateDone
    /\ qReplies[1].api = "ok"
    /\ ExtractPythonDict(qReplies[1].text).kind = "dict"
    /\ \/ qReplies[1].rec.question_text.t = "missing"
       \/ qReplies[1].rec.question_text = [t |-> "str", s |-> ""]

C14_FailureHoldsPreview ==
    GenSentinelCase =>
        /\ ~qOutcome.ok
        /\ qOutcome.preview # <<>>
        /\ Len(qOutcome.preview) <= Len(ExtractPythonDict(qReplies[1].text).raw)
        /\ qOutcome.preview =
               SubSeq(ExtractPythonDict(qReplies[1].text).raw, 1, Len(qOutcome.preview))

BlockStart(t) == IF Len(t) >= 2 /\ t[2] = "PY" THEN 4 ELSE 3

\* t is one fenced block, tagged or not, around a well-formed record
FencedRecord(t) ==
    /\ Len(t) >= BlockStart(t) + 2
    /\ t[1] = "F"
    /\ t[BlockStart(t) - 1] = "NL"
    /\ t[Len(t) - 1] = "NL"
    /\ t[Len(t)] = "F"
    /\ \A k \in 2..(Len(t) - 1) : t[k] # "F"
    /\ literal_eval(SubSeq(t, BlockStart(t), Len(t) - 2)).kind = "dict"

\* C17: for a text that is a single fenced block, tagged or not, around a
\* well-formed record, the result is that record
C17_FencedRecord ==
    (xpc = "done" /\ FencedRecord(response_text)) =>
        /\ extracted.kind = "dict"
        /\ extracted.val =
               literal_eval(SubSeq(response_text, BlockStart(response_text),
                                   Len(response_text) - 2)).val

\* t has several fenced blocks, one of them longer than every other, and
\* that one holds a well-formed record
LongestHoldsRecord(t) ==
    /\ Len(FencedBlocks(t)) >= 2
    /\ \A i, j \in 1..Len(FencedBlocks(t)) :
           (FencedBlocks(t)[i] # Longest(FencedBlocks(t)))
               => CharLen(FencedBlocks(t)[i]) < CharLen(Longest(FencedBlocks(t)))
    /\ literal_eval(Strip(Longest(FencedBlocks(t)))).kind = "dict"

\* C18: when the text has several fenced blocks, the record held in the
\* longest block is the one returned
C18_LongestBlock ==
    (xpc = "done" /\ LongestHoldsRecord(response_text)) =>
        /\ extracted.kind = "dict"
        /\ extracted.val = literal_eval(Strip(Longest(FencedBlocks(response_text)))).val

SentinelKeys ==
    {"error", "raw_response", "total_points_awarded", "total_points_possible",
     "percentage", "state", "explanation"}

ExplanationKeys ==
    {"overall_feedback", "criterion_grades", "strengths", "weaknesses", "suggestions"}

C20_PreviewClean ==
    (xpc = "done" /\ extracted.kind = "sentinel") =>
        /\ CharLen(extracted.raw) + extracted.raw_part <= PreviewLimit
        /\ \A i \in 1..Len(extracted.raw) :
               \A k \in 1..Len(PromptFragments) : extracted.raw[i] # PromptFragments[k]

(***************************************************************************)
(* Round trip of _extract_python_dict (SpecExtract)                        *)
(***************************************************************************)
\* C21: extracting the serialization of a mapping that was extracted gives
\* the same mapping, also when a string value of the mapping holds fences
C21_RoundTrip ==
    xpc = "again" =>
        /\ reextracted.result.kind = "dict"
        /\ reextracted.result.val = extracted.val

(***************************************************************************)
(* Properties of the stored sessions (Spec)                                *)
(***************************************************************************)
\* a is b without some elements at its end
IsPrefix(a, b) == Len(a) <= Len(b) /\ a = SubSeq(b, 1, Len(a))

\* C22: once a session is stored, no handler adds, removes, reorders or
\* modifies its questions or their rubrics, and its responses and grades
\* change only by appending at the end
C22_QuestionsFrozen ==
    [][\A s \in DOMAIN sessions :
          /\ s \in DOMAIN sessions'
          /\ sessions'[s].questions = sessions[s].questions
          /\ IsPrefix(sessions[s].responses, sessions'[s].responses)
          /\ IsPrefix(sessions[s].grades, sessions'[s].grades)]_vars

\* a session that holds a grade still holds the rubric it was created with
C22_Witness ==
    \E s \in DOMAIN sessions :
        /\ Len(sessions[s].grades) > 0
        /\ sessions[s].grades[1].state # "Error"
        /\ \A i \in 1..Len(sessions[s].questions) :
               sessions[s].questions[i].rubric = SessionRubric

(***************************************************************************)
(* Properties of the reconciled grade (SpecGrade)                          *)
(***************************************************************************)
\* the backend answered, the extractor found a record, the record has no
\* error key, and grade_response returned a GradeResult
NonErrorPath ==
    /\ GradeDone
    /\ gReply.api = "ok"
    /\ ExtractPythonDict(gReply.text).kind = "dict"
    /\ ~gReply.rec.error

ReportedPercentage == Get(gReply.rec.percentage, Num(0)).v

\* C23: on the non-error path with a rubric total above 0 the percentage
\* of the result is total_points_awarded / total_points_possible * 100
\* when the reported percentage is 0 or differs from that value by more
\* than 1, and the reported percentage otherwise
C23_PercentageRule ==
    (NonErrorPath /\ gQuestion.rubric.total_points > 0) =>
        LET g == gOutcome.grade[1]
            possible == gQuestion.rubric.total_points
        IN  IF \/ ReportedPercentage = 0
               \/ ReportedPercentage * possible - ReportedTotal * 100 > possible
               \/ ReportedTotal * 100 - ReportedPercentage * possible > possible
            THEN g.percentage.n * possible = ReportedTotal * 100 * g.percentage.d
            ELSE g.percentage.n = ReportedPercentage * g.percentage.d

\* 15 of 30 points reported with a percentage of 51: the 51 is kept
C23_Witness ==
    /\ NonErrorPath
    /\ gQuestion.rubric.total_points = 30
    /\ gReply.rec.total_points_awarded = Num(15)
    /\ gReply.rec.percentage = Num(51)
    /\ gOutcome.grade[1].percentage = Rat(51, 1)

Strategies(t) ==
    <<literal_eval(t),
      json_loads(t, FALSE),
      TryMatches(SortedByLen(DictMatches(t, 1))),
      json_loads(t, TRUE),
      IF Find(t, "LB") = 0 THEN [kind |-> "none", val |-> NoVal]
      ELSE TrySpan(t, Find(t, "LB")),
      IF AnchorBrace(t) = 0 THEN [kind |-> "none", val |-> NoVal]
      ELSE TrySpan(t, AnchorBrace(t))>>

\* the strategies of ms that yield a mapping
Yielding(ms) == {k \in 1..Len(ms) : ms[k].kind = "dict"}

FirstOf(ks) == CHOOSE k \in ks : \A j \in ks : k <= j

\* C24: the call returns the mapping of the first strategy, in the order
\* 1..6, that yields a mapping, and it returns no mapping when none of
\* the six yields one
C24_FirstStrategy ==
    xpc = "done" =>
        \E ms \in {Strategies(StripFences(StripIntro(Strip(response_text))))} :
            IF Yielding(ms) = {}
            THEN extracted.kind # "dict"
            ELSE /\ extracted.kind = "dict"
                 /\ extracted.method = FirstOf(Yielding(ms))
                 /\ extracted.val = ms[FirstOf(Yielding(ms))].val

(***************************************************************************)
(* Completion and rejected submissions (Spec)                              *)
(***************************************************************************)
\* every question of the session has a response
AllAnswered(session) ==
    \A i \in 1..Len(session.questions) :
        \E j \in 1..Len(session.responses) :
            session.responses[j].question_id = session.questions[i].question_id

NotFound(req) ==
    \/ req.session_id \notin DOMAIN sessions
    \/ \A i \in 1..Len(sessions[req.session_id].questions) :
          sessions[req.session_id].questions[i].question_id # req.question_id

\* C29: the step that takes up a submit_response request naming an unknown
\* session, or a question that is not among its session's questions,
\* answers 404 and leaves every session and the set of running gradings
\* as they are; and a step changes a stored session only when it takes up
\* or finishes a submission that names this session
C29_RejectedChangesNothing ==
    [][/\ \A req \in inflight \ inflight' :
              NotFound(req) =>
                  /\ sessions' = sessions
                  /\ running' = running
                  /\ http' = 404
       /\ \A s \in DOMAIN sessions :
              /\ s \in DOMAIN sessions'
              /\ sessions'[s] # sessions[s] =>
                    \E req \in (inflight \ inflight') \cup (running \ running') :
                        req.session_id = s /\ ~NotFound(req)]_vars

\* two sessions, one with a graded response and one untouched, after a
\* request was answered with 404
C29_Witness ==
    /\ http = 404
    /\ inflight = {}
    /\ running = {}
    /\ \E s \in DOMAIN sessions, u \in DOMAIN sessions :
          /\ s # u
          /\ Len(sessions[s].responses) = 1
          /\ Len(sessions[s].grades) = 1
          /\ sessions[u].questions # <<>>
          /\ sessions[u].responses = <<>>
          /\ sessions[u].grades = <<>>

(***************************************************************************)
(* The difficulty of a generated question (SpecGenerate)                   *)
(***************************************************************************)
\* the backend answered, the extractor found a record without error key,
\* and the record has a question_text that is a non-empty string
DifficultyCase ==
    /\ GenerateDone
    /\ qReplies[1].api = "ok"
    /\ ExtractPythonDict(qReplies[1].text).kind = "dict"
    /\ ~qReplies[1].rec.error
    /\ qReplies[1].rec.question_text = [t |-> "str", s |-> "What is a heap?"]

\* the labels that the string, without the blanks around it, spells in
\* any case
LabelsSpelled(str) ==
    {l \in DifficultyLabels :
        /\ Len(l) = Len(StripBlanks(str))
        /\ \A i \in 1..Len(l) : ToLower(l[i]) = ToLower(StripBlanks(str)[i])}

\* C28: a question is returned whatever the difficulty of the record; its
\* difficulty is the label that the record's string spells after trimming
\* and case normalization, and None for every other value of the record
C28_DifficultyLabel ==
    DifficultyCase =>
        /\ qOutcome.ok
        /\ \E labels \in {IF qReplies[1].rec.difficulty.t = "str"
                           THEN LabelsSpelled(qReplies[1].rec.difficulty.s)
                           ELSE {}} :
              IF labels = {}
              THEN qOutcome.questions[1].difficulty = AbsentDifficulty
              ELSE qOutcome.questions[1].difficulty \in
                       {[t |-> "str", s |-> l] : l \in labels}

(***************************************************************************)
(* Records with an error key (SpecErrorKey)                                *)
(***************************************************************************)
\* the backend answered the grading prompt with a record that has an error
\* key and that the extractor returns
GradeErrorKeyCase ==
    /\ gpc = "done"
    /\ gReply.api = "ok"
    /\ ExtractPythonDict(gReply.text).kind = "dict"
    /\ gReply.rec.error

\* the same for the generation prompt
GenErrorKeyCase ==
    /\ GenerateDone
    /\ qReplies[1].api = "ok"
    /\ ExtractPythonDict(qReplies[1].text).kind = "dict"
    /\ qReplies[1].rec.error

====
